---- MODULE Spec2Model ----
(***************************************************************************)
(* A model of src/app.py: the Flask chat relay that keeps one process-wide *)
(* (language, personality) pair and one conversation transcript, and       *)
(* forwards chat turns to the Gemini API.                                  *)
(*                                                                         *)
(* Strings are sequences: user input is a sequence of one-character        *)
(* strings (so that strip(), lower() and the `in` substring test are       *)
(* computed, not assumed), and an f-string is the sequence of its literal  *)
(* pieces and interpolated values.  Non-ASCII characters of the source's   *)
(* literals (emoji, the typographic apostrophe) are left out of the        *)
(* literal pieces.                                                         *)
(*                                                                         *)
(* Python lists are objects: conversation_history holds a reference into   *)
(* `heap`, and reset_conversation rebinds the global to a fresh list.      *)
(* Each request is a thread whose position is pc[p]; the steps are the     *)
(* places where the handler reads or writes shared state.                  *)
(***************************************************************************)
EXTENDS Integers, Sequences, FiniteSets, TLC

(***************************************************************************)
(* Bounds of the model.                                                    *)
(***************************************************************************)
\* A request without a reset keyword is accepted only while the live
\* transcript is shorter than this: with requests one at a time, and with
\* two threads.
MaxTurns == 4
MaxTurnsConc == 2

\* Requests the two threads accept in all.
MaxRequestsConc == 3

\* Threads serving requests: one when requests are handled one at a time,
\* two when the server is threaded.
SeqProcs == {1}
ConcProcs == {1, 2}
Procs == ConcProcs

\* List objects: the live one plus one captured by each in-flight call.
ListIds == 1..(Cardinality(Procs) + 1)
NoList == 0

(***************************************************************************)
(* Characters and the str methods the handler uses.                        *)
(***************************************************************************)
UpperChars == <<"A","B","C","D","E","F","G","H","I","J","K","L","M",
                "N","O","P","Q","R","S","T","U","V","W","X","Y","Z">>
LowerChars == <<"a","b","c","d","e","f","g","h","i","j","k","l","m",
                "n","o","p","q","r","s","t","u","v","w","x","y","z">>
Whitespace == {" ", "\t", "\n"}

\* str.lower() on one character
LowerChar(c) ==
    IF \E i \in 1..Len(UpperChars) : UpperChars[i] = c
    THEN LowerChars[CHOOSE i \in 1..Len(UpperChars) : UpperChars[i] = c]
    ELSE c

\* str.lower()
Lower(s) == [i \in 1..Len(s) |-> LowerChar(s[i])]

RECURSIVE LStrip(_)
LStrip(s) ==
    IF s # <<>> /\ Head(s) \in Whitespace THEN LStrip(Tail(s)) ELSE s

RECURSIVE RStrip(_)
RStrip(s) ==
    IF s # <<>> /\ s[Len(s)] \in Whitespace
    THEN RStrip(SubSeq(s, 1, Len(s) - 1))
    ELSE s

\* str.strip()
Strip(s) == RStrip(LStrip(s))

\* `k in s` on strings
Contains(k, s) ==
    \E i \in 1..(Len(s) - Len(k) + 1) : SubSeq(s, i, i + Len(k) - 1) = k

(***************************************************************************)
(* Literals of the source.                                                 *)
(***************************************************************************)
KW_reset == <<"r","e","s","e","t">>
KW_cancel == <<"c","a","n","c","e","l">>
KW_stop == <<"s","t","o","p">>
KW_start_over == <<"s","t","a","r","t"," ","o","v","e","r">>
KW_auto_reset_scroll ==
    <<"a","u","t","o","_","r","e","s","e","t","_","s","c","r","o","l","l">>

\* the list of line 161
RESET_KEYWORDS ==
    <<KW_reset, KW_cancel, KW_stop, KW_start_over, KW_auto_reset_scroll>>

ERR_NOT_INITIALIZED ==
    <<"Error: Gemini client not initialized. Check server logs.">>
ERR_NO_CONTACT == <<"Error: Could not contact Gemini model.">>
SILENT_RESPONSE == <<"...">>

PERSONALITY_INSTRUCTIONS ==
    [x \in {"Study Buddy", "Wellness Coach", "Career Advisor"} |->
        CASE x = "Study Buddy" ->
                "You are a professional and concise academic tutor. ..."
          [] x = "Wellness Coach" ->
                "You are an empathetic, gentle, and motivational life coach. ..."
          [] x = "Career Advisor" ->
                "You are a pragmatic, formal, and insightful career counselor. ..."]

\* dict.get(key, default)
DictGet(d, key, default) == IF key \in DOMAIN d THEN d[key] ELSE default

\* mutant of line 30: PERSONALITY_INSTRUCTIONS.get(personality, "")
build_system_prompt_NoFallback(language, personality) ==
    LET instruction == DictGet(PERSONALITY_INSTRUCTIONS, personality, "")
    IN  << "\n", instruction,
           "\n\nYour core identity is a friendly, concise, and professional AI assistant.\nYou must always reply in **",
           language,
           " language only**.\n\n--- CORE RULES ---\n1. Use natural and fluent ",
           language,
           ".\n2. Keep responses short ... <<OPTION:Staying Motivated>>\n" >>

\* build_system_prompt(language, personality)
build_system_prompt(language, personality) ==
    LET instruction ==
            DictGet(PERSONALITY_INSTRUCTIONS, personality,
                    PERSONALITY_INSTRUCTIONS["Study Buddy"])
    IN  << "\n", instruction,
           "\n\nYour core identity is a friendly, concise, and professional AI assistant.\nYou must always reply in **",
           language,
           " language only**.\n\n--- CORE RULES ---\n1. Use natural and fluent ",
           language,
           ".\n2. Keep responses short ... <<OPTION:Staying Motivated>>\n" >>

\* types.Content(role=role, parts=[types.Part(text=text)])
Content(role, text) == [role |-> role, text |-> text]

\* the f-string of line 81
WelcomeText(personality) ==
    << "Hello! I'm your Personal AI Assistant, currently set as a **",
       personality, "**. How can I help you today?" >>

\* the f-string of line 146
StateChangeText(language, personality) ==
    << "Hello! I've set my language to **", language,
       "** and I'm now your **", personality, "**." >>

\* the f-string of line 168
ResetText(personality, language) ==
    << "Conversation reset. I'm now your **", personality,
       "** in **", language, "**." >>

(***************************************************************************)
(* Inputs.                                                                 *)
(***************************************************************************)
IN_hi == <<" ","h","i"," ">>
IN_nonSTOP == <<"n","o","n","S","T","O","P">>
IN_Cancel == <<"C","a","n","c","e","l","\n">>
IN_start_over == <<"S","t","a","r","t"," ","o","v","e","r">>
IN_AUTO == <<" ","A","U","T","O","_","R","E","S","E","T","_",
             "S","C","R","O","L","L"," ">>
IN_autos == KW_auto_reset_scroll \o <<"s">>

SeqInputs ==
    {IN_hi, IN_nonSTOP, IN_Cancel, IN_start_over, IN_AUTO, IN_autos}
ConcInputs == {IN_hi, IN_nonSTOP}

Languages == {"English", "French"}
\* "Pirate" is not a key of PERSONALITY_INSTRUCTIONS
Personalities == {"Study Buddy", "Pirate"}

\* The JSON bodies of POST /chatbot: user_input, language and personality are
\* each optional.
Requests(inputs, languages, personalities) ==
    {[user_input |-> i] : i \in inputs}
    \cup {[user_input |-> i, language |-> l] : i \in inputs, l \in languages}
    \cup {[user_input |-> i, personality |-> q] :
            i \in inputs, q \in personalities}
    \cup {[user_input |-> i, language |-> l, personality |-> q] :
            i \in inputs, l \in languages, q \in personalities}
    \cup {[language |-> l] : l \in languages}

\* What client.models.generate_content can do: raise, or return a response
\* object.  response.candidates may be empty (a blocked prompt), and
\* response.text is None when the candidate carries no text.
REPLY_ok == <<"o","k"," ">>
RAISED == [raised |-> TRUE, candidates |-> <<>>, has_text |-> FALSE, text |-> <<>>]
ApiResponse(text) ==
    [raised |-> FALSE, candidates |-> <<Content("model", text)>>,
     has_text |-> TRUE, text |-> text]
NO_CANDIDATES ==
    [raised |-> FALSE, candidates |-> <<>>, has_text |-> FALSE, text |-> <<>>]
NO_TEXT ==
    [raised |-> FALSE, candidates |-> <<Content("model", <<>>)>>,
     has_text |-> FALSE, text |-> <<>>]
ApiOutcomes == {RAISED, NO_CANDIDATES, NO_TEXT, ApiResponse(REPLY_ok)}
ConcApiOutcomes == {NO_CANDIDATES, ApiResponse(REPLY_ok)}

(***************************************************************************)
(* State.                                                                  *)
(***************************************************************************)
VARIABLES
    user_language,          \* global, line 17
    user_personality,       \* global, line 18
    client,                 \* global, lines 57-68: "configured" or "none"
    conversation_history,   \* global, line 71: a reference into heap
    heap,                   \* the list objects: ListIds -> sequence of turns
    owner,                  \* history variable: which thread appended each turn
    pc,                     \* each thread's position in the handler
    frame,                  \* each thread's local variables
    result,                 \* each thread's jsonify(...) return value
    obs,                    \* history variable: what the request saw at its start
    served                  \* history variable: requests accepted so far

vars ==
    <<user_language, user_personality, client, conversation_history, heap,
      owner, pc, frame, result, obs, served>>

\* the transcript the global names
Transcript == heap[conversation_history]

EmptyFrame ==
    [data |-> <<>>, user_input |-> <<>>, user_input_lower |-> <<>>,
     selected_language |-> "", selected_personality |-> "",
     reset_personality |-> "", history |-> NoList, language |-> "",
     personality |-> "", contents |-> <<>>, response |-> NO_CANDIDATES,
     bot_response |-> <<>>]

EmptyObs ==
    [pre_history |-> <<>>, pre_language |-> "", pre_personality |-> "",
     branch |-> "none", calls |-> 0, uidx |-> 0, midx |-> 0,
     rebound |-> FALSE, reset_in_flight |-> FALSE]

\* history variable: the global was rebound after these threads were given
\* the list
NoteRebound(o, fr, p) ==
    [q \in Procs |->
        IF q # p /\ fr[q].history # NoList
        THEN [o[q] EXCEPT !.rebound = TRUE]
        ELSE o[q]]

\* history variable: reset_conversation returned while these threads were
\* waiting for generate_content
NoteResetInFlight(o, at, p) ==
    [q \in Procs |->
        IF q # p /\ at[q] = "L103"
        THEN [o[q] EXCEPT !.reset_in_flight = TRUE]
        ELSE o[q]]

\* list objects some name still refers to
Referenced(ch, fr) == ({ch} \cup {fr[p].history : p \in Procs}) \ {NoList}

\* a new list object: `[]` of line 77
FreshList(ch, fr) == CHOOSE i \in ListIds : i \notin Referenced(ch, fr)

\* list objects nothing refers to are gone
Collect(h, ch, fr) ==
    [i \in ListIds |-> IF i \in Referenced(ch, fr) THEN h[i] ELSE <<>>]

\* module level: lines 17-18, 57-71 and the reset_conversation call of line 120
Init ==
    /\ user_language = "English"
    /\ user_personality = "Study Buddy"
    /\ client \in {"configured", "none"}
    /\ conversation_history = 1
    /\ heap = [i \in ListIds |->
                IF i = 1 THEN <<Content("model", WelcomeText("Study Buddy"))>>
                ELSE <<>>]
    /\ owner = [i \in ListIds |-> IF i = 1 THEN <<0>> ELSE <<>>]
    /\ pc = [p \in Procs |-> "idle"]
    /\ frame = [p \in Procs |-> EmptyFrame]
    /\ result = [p \in Procs |-> <<>>]
    /\ obs = [p \in Procs |-> EmptyObs]
    /\ served = 0

(***************************************************************************)
(* The handler of POST /chatbot, get_chat_response, step by step.          *)
(***************************************************************************)
\* mutant of line 134: `and` for `or`
is_state_change_And(selected_language, selected_personality, language, personality) ==
    (selected_language # language) /\ (selected_personality # personality)

\* line 134
is_state_change(selected_language, selected_personality, language, personality) ==
    (selected_language # language) \/ (selected_personality # personality)

\* the any(...) of line 161
IsResetCommand(user_input_lower) ==
    \E n \in 1..Len(RESET_KEYWORDS) : Contains(RESET_KEYWORDS[n], user_input_lower)

\* mutant of lines 97-101: the user turn is already in the history that is
\* sent, and is added again
BuildContents_UserTwice(system_prompt, history, user_input) ==
    <<Content("user", system_prompt)>> \o history
        \o <<Content("user", user_input), Content("user", user_input)>>

\* lines 97-101
BuildContents(system_prompt, history, user_input) ==
    <<Content("user", system_prompt)>> \o history \o <<Content("user", user_input)>>

\* mutant of line 110: history.insert(0, ...)
AppendUserContent_AtFront(history, user_input) ==
    <<Content("user", user_input)>> \o history

\* line 110
AppendUserContent(history, user_input) ==
    Append(history, Content("user", user_input))

\* mutant of line 111: the model turn is put before the last turn
AppendCandidate_BeforeLast(history, response) ==
    IF history = <<>>
    THEN <<response.candidates[1]>>
    ELSE Append(SubSeq(history, 1, Len(history) - 1), response.candidates[1])
            \o <<history[Len(history)]>>

\* line 111
AppendCandidate(history, response) == Append(history, response.candidates[1])

\* mutant of lines 129-130: omitted selectors default to the initial ones
Receive_DefaultsToInitial(p, data, cap) ==
    /\ pc[p] = "idle"
    /\ \/ Len(Transcript) < cap
       \/ IsResetCommand(Lower(Strip(DictGet(data, "user_input", <<>>))))
    /\ LET user_input == Strip(DictGet(data, "user_input", <<>>))
       IN  frame' = [frame EXCEPT ![p] =
                [EmptyFrame EXCEPT
                    !.data = data,
                    !.user_input = user_input,
                    !.selected_language = DictGet(data, "language", "English"),
                    !.selected_personality =
                        DictGet(data, "personality", "Study Buddy"),
                    !.user_input_lower = Lower(user_input)]]
    /\ obs' = [obs EXCEPT ![p] =
                [EmptyObs EXCEPT
                    !.pre_history = Transcript,
                    !.pre_language = user_language,
                    !.pre_personality = user_personality]]
    /\ pc' = [pc EXCEPT ![p] = "L134"]
    /\ UNCHANGED <<user_language, user_personality, client,
                   conversation_history, heap, owner, result>>

\* lines 127-131: the request body is read; selectors the body omits default
\* to the stored ones
Receive(p, data, cap) ==
    /\ pc[p] = "idle"
    /\ \/ Len(Transcript) < cap
       \/ IsResetCommand(Lower(Strip(DictGet(data, "user_input", <<>>))))
    /\ LET user_input == Strip(DictGet(data, "user_input", <<>>))
       IN  frame' = [frame EXCEPT ![p] =
                [EmptyFrame EXCEPT
                    !.data = data,
                    !.user_input = user_input,
                    !.selected_language = DictGet(data, "language", user_language),
                    !.selected_personality =
                        DictGet(data, "personality", user_personality),
                    !.user_input_lower = Lower(user_input)]]
    /\ obs' = [obs EXCEPT ![p] =
                [EmptyObs EXCEPT
                    !.pre_history = Transcript,
                    !.pre_language = user_language,
                    !.pre_personality = user_personality]]
    /\ pc' = [pc EXCEPT ![p] = "L134"]
    /\ UNCHANGED <<user_language, user_personality, client,
                   conversation_history, heap, owner, result>>

\* mutant of lines 134-161: the reset command is tested before the selectors
Dispatch_ResetFirst(p) ==
    /\ pc[p] = "L134"
    /\ LET branch ==
            IF IsResetCommand(frame[p].user_input_lower)
            THEN "reset"
            ELSE IF is_state_change(frame[p].selected_language,
                                    frame[p].selected_personality,
                                    user_language, user_personality)
                 THEN "state_change"
                 ELSE "chat"
       IN  /\ obs' = [obs EXCEPT ![p].branch = branch]
           /\ pc' = [pc EXCEPT ![p] =
                        CASE branch = "state_change" -> "L138"
                          [] branch = "reset" -> "L162"
                          [] OTHER -> "L171"]
    /\ UNCHANGED <<user_language, user_personality, client,
                   conversation_history, heap, owner, frame, result, served>>

\* lines 134-136 and 161: first match wins
Dispatch(p) ==
    /\ pc[p] = "L134"
    /\ LET branch ==
            IF is_state_change(frame[p].selected_language,
                               frame[p].selected_personality,
                               user_language, user_personality)
            THEN "state_change"
            ELSE IF IsResetCommand(frame[p].user_input_lower)
                 THEN "reset"
                 ELSE "chat"
       IN  /\ obs' = [obs EXCEPT ![p].branch = branch]
           /\ pc' = [pc EXCEPT ![p] =
                        CASE branch = "state_change" -> "L138"
                          [] branch = "reset" -> "L162"
                          [] OTHER -> "L171"]
    /\ UNCHANGED <<user_language, user_personality, client,
                   conversation_history, heap, owner, frame, result, served>>

\* lines 138-139
UpdateSelectors(p) ==
    /\ pc[p] = "L138"
    /\ user_language' = frame[p].selected_language
    /\ user_personality' = frame[p].selected_personality
    /\ pc' = [pc EXCEPT ![p] = "L143"]
    /\ UNCHANGED <<client, conversation_history, heap, owner, frame, result, obs, served>>

\* mutant of lines 76-79: conversation_history.clear() for the rebinding
ResetRebind_ClearInPlace(p) ==
    /\ pc[p] \in {"L143", "L162"}
    /\ frame' = [frame EXCEPT ![p].reset_personality = user_personality]
    /\ heap' = [heap EXCEPT ![conversation_history] = <<>>]
    /\ owner' = [owner EXCEPT ![conversation_history] = <<>>]
    /\ obs' = NoteRebound(obs, frame, p)
    /\ pc' = [pc EXCEPT ![p] = "L82"]
    /\ UNCHANGED <<user_language, user_personality, client,
                   conversation_history, result, served>>

\* reset_conversation, lines 75-79, called from line 143 or line 162: the
\* global is rebound to a new empty list
ResetRebind(p) ==
    /\ pc[p] \in {"L143", "L162"}
    /\ frame' = [frame EXCEPT ![p].reset_personality = user_personality]
    /\ LET new == FreshList(conversation_history, frame)
       IN  /\ conversation_history' = new
           /\ heap' = Collect([heap EXCEPT ![new] = <<>>], new, frame)
           /\ owner' = Collect([owner EXCEPT ![new] = <<>>], new, frame)
    /\ obs' = NoteRebound(obs, frame, p)
    /\ pc' = [pc EXCEPT ![p] = "L82"]
    /\ UNCHANGED <<user_language, user_personality, client, result, served>>

\* mutant of lines 81-82: the welcome turn is WELCOME_MESSAGE_TEXT of line 19,
\* which does not name the personality
ResetAppend_GenericWelcome(p) ==
    /\ pc[p] = "L82"
    /\ heap' = [heap EXCEPT ![conversation_history] =
                  Append(@, Content("model",
                    <<"Hello! I'm your Personal AI Assistant. How can I help you today?">>))]
    /\ owner' = [owner EXCEPT ![conversation_history] = Append(@, p)]
    /\ obs' = NoteResetInFlight(obs, pc, p)
    /\ pc' = [pc EXCEPT ![p] =
                IF obs[p].branch = "state_change" THEN "L146" ELSE "L165"]
    /\ UNCHANGED <<user_language, user_personality, client,
                   conversation_history, frame, result, served>>

\* reset_conversation, lines 81-82: the welcome turn is appended to the list
\* the global names now
ResetAppend(p) ==
    /\ pc[p] = "L82"
    /\ heap' = [heap EXCEPT ![conversation_history] =
                  Append(@, Content("model", WelcomeText(frame[p].reset_personality)))]
    /\ owner' = [owner EXCEPT ![conversation_history] = Append(@, p)]
    /\ obs' = NoteResetInFlight(obs, pc, p)
    /\ pc' = [pc EXCEPT ![p] =
                IF obs[p].branch = "state_change" THEN "L146" ELSE "L165"]
    /\ UNCHANGED <<user_language, user_personality, client,
                   conversation_history, frame, result, served>>

\* lines 146-157
StateChangeRespond(p) ==
    /\ pc[p] = "L146"
    /\ result' = [result EXCEPT ![p] =
                    [response |-> StateChangeText(user_language, user_personality),
                     language |-> user_language,
                     personality |-> user_personality]]
    /\ pc' = [pc EXCEPT ![p] = "done"]
    /\ UNCHANGED <<user_language, user_personality, client,
                   conversation_history, heap, owner, frame, obs, served>>

\* mutant of line 165: `in` for `==`
ResetRespond_SilentOnSubstring(p) ==
    /\ pc[p] = "L165"
    /\ result' = [result EXCEPT ![p] =
                    IF Contains(KW_auto_reset_scroll, frame[p].user_input_lower)
                    THEN [response |-> SILENT_RESPONSE, silent |-> TRUE]
                    ELSE [response |-> ResetText(user_personality, user_language),
                          language |-> user_language]]
    /\ pc' = [pc EXCEPT ![p] = "done"]
    /\ UNCHANGED <<user_language, user_personality, client,
                   conversation_history, heap, owner, frame, obs, served>>

\* mutant of lines 162-168: the reset command also restores the initial
\* selectors
ResetRespond_RestoresDefaults(p) ==
    /\ pc[p] = "L165"
    /\ user_language' = "English"
    /\ user_personality' = "Study Buddy"
    /\ result' = [result EXCEPT ![p] =
                    IF frame[p].user_input_lower = KW_auto_reset_scroll
                    THEN [response |-> SILENT_RESPONSE, silent |-> TRUE]
                    ELSE [response |-> ResetText(user_personality, user_language),
                          language |-> user_language]]
    /\ pc' = [pc EXCEPT ![p] = "done"]
    /\ UNCHANGED <<client, conversation_history, heap, owner, frame, obs, served>>

\* lines 165-168
ResetRespond(p) ==
    /\ pc[p] = "L165"
    /\ result' = [result EXCEPT ![p] =
                    IF frame[p].user_input_lower = KW_auto_reset_scroll
                    THEN [response |-> SILENT_RESPONSE, silent |-> TRUE]
                    ELSE [response |-> ResetText(user_personality, user_language),
                          language |-> user_language]]
    /\ pc' = [pc EXCEPT ![p] = "done"]
    /\ UNCHANGED <<user_language, user_personality, client,
                   conversation_history, heap, owner, frame, obs, served>>

\* line 171: the call binds get_gemini_response's parameters; `history` is
\* the list object the global names at this moment
CallGemini(p) ==
    /\ pc[p] = "L171"
    /\ frame' = [frame EXCEPT ![p].history = conversation_history,
                              ![p].language = user_language,
                              ![p].personality = user_personality]
    /\ pc' = [pc EXCEPT ![p] = "L88"]
    /\ UNCHANGED <<user_language, user_personality, client,
                   conversation_history, heap, owner, result, obs, served>>

\* mutant of lines 88-89: the client is not tested
PrepareContents_NoClientTest(p) ==
    /\ pc[p] = "L88"
    /\ frame' = [frame EXCEPT ![p].contents =
                    BuildContents(
                        build_system_prompt(frame[p].language, frame[p].personality),
                        heap[frame[p].history],
                        frame[p].user_input)]
    /\ pc' = [pc EXCEPT ![p] = "L103"]
    /\ UNCHANGED <<user_language, user_personality, client,
                   conversation_history, heap, owner, result, obs, served>>

\* lines 88-101
PrepareContents(p) ==
    /\ pc[p] = "L88"
    /\ IF client = "none"
       THEN /\ frame' = [frame EXCEPT ![p].bot_response = ERR_NOT_INITIALIZED]
            /\ pc' = [pc EXCEPT ![p] = "L172"]
       ELSE /\ frame' = [frame EXCEPT ![p].contents =
                            BuildContents(
                                build_system_prompt(frame[p].language,
                                                    frame[p].personality),
                                heap[frame[p].history],
                                frame[p].user_input)]
            /\ pc' = [pc EXCEPT ![p] = "L103"]
    /\ UNCHANGED <<user_language, user_personality, client,
                   conversation_history, heap, owner, result, obs, served>>

\* mutant of lines 103-116: a call that raises is made again
GenerateContent_Retry(p, outcome) ==
    /\ pc[p] = "L103"
    /\ obs' = [obs EXCEPT ![p].calls = @ + 1]
    /\ frame' = [frame EXCEPT ![p].response = outcome]
    /\ pc' = [pc EXCEPT ![p] = IF outcome.raised THEN "L103" ELSE "L110"]
    /\ UNCHANGED <<user_language, user_personality, client,
                   conversation_history, heap, owner, result, served>>

\* lines 103-107 and, when the call raises, 114-116
GenerateContent(p, outcome) ==
    /\ pc[p] = "L103"
    /\ obs' = [obs EXCEPT ![p].calls = @ + 1]
    /\ IF outcome.raised
       THEN /\ frame' = [frame EXCEPT ![p].response = outcome,
                                      ![p].bot_response = ERR_NO_CONTACT]
            /\ pc' = [pc EXCEPT ![p] = "L172"]
       ELSE /\ frame' = [frame EXCEPT ![p].response = outcome]
            /\ pc' = [pc EXCEPT ![p] = "L110"]
    /\ UNCHANGED <<user_language, user_personality, client,
                   conversation_history, heap, owner, result, served>>

\* mutant of line 110: the instruction turn of `contents` is stored too
AppendUserTurn_StoresPrompt(p) ==
    /\ pc[p] = "L110"
    /\ heap' = [heap EXCEPT ![frame[p].history] =
                    AppendUserContent(Append(@, frame[p].contents[1]),
                                      frame[p].user_input)]
    /\ owner' = [owner EXCEPT ![frame[p].history] = Append(Append(@, p), p)]
    /\ obs' = [obs EXCEPT ![p].uidx = Len(heap'[frame[p].history])]
    /\ pc' = [pc EXCEPT ![p] = "L111"]
    /\ UNCHANGED <<user_language, user_personality, client,
                   conversation_history, frame, result, served>>

\* line 110
AppendUserTurn(p) ==
    /\ pc[p] = "L110"
    /\ heap' = [heap EXCEPT ![frame[p].history] =
                    AppendUserContent(@, frame[p].user_input)]
    /\ owner' = [owner EXCEPT ![frame[p].history] = Append(@, p)]
    /\ obs' = [obs EXCEPT ![p].uidx = Len(heap'[frame[p].history])]
    /\ pc' = [pc EXCEPT ![p] = "L111"]
    /\ UNCHANGED <<user_language, user_personality, client,
                   conversation_history, frame, result, served>>

\* lines 111-116: response.candidates[0] raises when there is no candidate,
\* response.text.strip() raises when text is None; either way the except
\* clause of line 114 turns it into the fixed error string
AppendModelTurn(p) ==
    /\ pc[p] = "L111"
    /\ IF frame[p].response.candidates = <<>>
       THEN /\ frame' = [frame EXCEPT ![p].bot_response = ERR_NO_CONTACT]
            /\ UNCHANGED <<heap, owner, obs, served>>
       ELSE /\ heap' = [heap EXCEPT ![frame[p].history] =
                            AppendCandidate(@, frame[p].response)]
            /\ owner' = [owner EXCEPT ![frame[p].history] = Append(@, p)]
            /\ obs' = [obs EXCEPT ![p].midx = Len(heap'[frame[p].history])]
            /\ frame' = [frame EXCEPT ![p].bot_response =
                            IF frame[p].response.has_text
                            THEN Strip(frame[p].response.text)
                            ELSE ERR_NO_CONTACT]
    /\ pc' = [pc EXCEPT ![p] = "L172"]
    /\ UNCHANGED <<user_language, user_personality, client,
                   conversation_history, result, served>>

\* line 172: get_gemini_response has returned, its `history` is gone
Respond(p) ==
    /\ pc[p] = "L172"
    /\ result' = [result EXCEPT ![p] =
                    [response |-> frame[p].bot_response,
                     language |-> user_language,
                     personality |-> user_personality]]
    /\ frame' = [frame EXCEPT ![p].history = NoList]
    /\ heap' = Collect(heap, conversation_history, frame')
    /\ owner' = Collect(owner, conversation_history, frame')
    /\ pc' = [pc EXCEPT ![p] = "done"]
    /\ UNCHANGED <<user_language, user_personality, client,
                   conversation_history, obs, served>>

\* the response is sent; the thread's locals are gone
Return(p) ==
    /\ pc[p] = "done"
    /\ pc' = [pc EXCEPT ![p] = "idle"]
    /\ frame' = [frame EXCEPT ![p] = EmptyFrame]
    /\ obs' = [obs EXCEPT ![p] = EmptyObs]
    /\ result' = [result EXCEPT ![p] = <<>>]
    /\ UNCHANGED <<user_language, user_personality, client,
                   conversation_history, heap, owner, served>>

\* GET /, lines 176-184
Home(p) ==
    /\ pc[p] = "idle"
    /\ result' = [result EXCEPT ![p] =
                    [status |-> "Server is running successfully!",
                     message |-> "Welcome to Personal AI Chatbot API",
                     endpoints |-> [POST |-> "/chatbot"]]]
    /\ obs' = [obs EXCEPT ![p] =
                [EmptyObs EXCEPT
                    !.pre_history = Transcript,
                    !.pre_language = user_language,
                    !.pre_personality = user_personality,
                    !.branch = "home"]]
    /\ pc' = [pc EXCEPT ![p] = "done"]
    /\ UNCHANGED <<user_language, user_personality, client,
                   conversation_history, heap, owner, frame, served>>

\* GET /status, lines 186-193
Status(p) ==
    /\ pc[p] = "idle"
    /\ result' = [result EXCEPT ![p] =
                    [status |-> "Server is running",
                     model |-> "Gemini 2.5 Flash",
                     language |-> user_language,
                     personality |-> user_personality]]
    /\ obs' = [obs EXCEPT ![p] =
                [EmptyObs EXCEPT
                    !.pre_history = Transcript,
                    !.pre_language = user_language,
                    !.pre_personality = user_personality,
                    !.branch = "status"]]
    /\ pc' = [pc EXCEPT ![p] = "done"]
    /\ UNCHANGED <<user_language, user_personality, client,
                   conversation_history, heap, owner, frame, served>>

\* the steps of a request that has been read
Handle(p, outcomes) ==
    \/ Dispatch(p)
    \/ UpdateSelectors(p)
    \/ ResetRebind(p)
    \/ ResetAppend(p)
    \/ StateChangeRespond(p)
    \/ ResetRespond(p)
    \/ CallGemini(p)
    \/ PrepareContents(p)
    \/ \E outcome \in outcomes : GenerateContent(p, outcome)
    \/ AppendUserTurn(p)
    \/ AppendModelTurn(p)
    \/ Respond(p)
    \/ Return(p)

\* requests handled one at a time
Next ==
    \E p \in SeqProcs :
        \/ /\ \E data \in Requests(SeqInputs, Languages, Personalities) :
                    Receive(p, data, MaxTurns)
           /\ UNCHANGED served
        \/ Handle(p, ApiOutcomes)
        \/ Home(p)
        \/ Status(p)

Spec == Init /\ [][Next]_vars

\* a threaded server: two requests in flight
NextConc ==
    \E p \in ConcProcs :
        \/ /\ served < MaxRequestsConc
           /\ \E data \in Requests(ConcInputs, {"French"}, {}) :
                    Receive(p, data, MaxTurnsConc)
           /\ served' = served + 1
        \/ Handle(p, ConcApiOutcomes)

SpecConc == Init /\ [][NextConc]_vars

(***************************************************************************)
(* Vocabulary of the properties: a finished request p is described by the  *)
(* body it sent (frame[p].data) and the state it found (obs[p]).           *)
(***************************************************************************)
\* a POST /chatbot request has been answered
Done(p) == pc[p] = "done" /\ obs[p].branch \in {"state_change", "reset", "chat"}

RawInput(p) == DictGet(frame[p].data, "user_input", <<>>)

\* the lowercased trimmed input
Normalized(p) == Lower(Strip(RawInput(p)))

\* the selectors the request asks for
ReqLanguage(p) == DictGet(frame[p].data, "language", obs[p].pre_language)
ReqPersonality(p) == DictGet(frame[p].data, "personality", obs[p].pre_personality)

\* a selector supplied in the request differs from the stored one
SelectorsDiffer(p) ==
    \/ "language" \in DOMAIN frame[p].data
        /\ frame[p].data.language # obs[p].pre_language
    \/ "personality" \in DOMAIN frame[p].data
        /\ frame[p].data.personality # obs[p].pre_personality

\* the reset keywords as the specification words them
HasResetKeyword(t) ==
    \/ Contains(KW_reset, t)
    \/ Contains(KW_cancel, t)
    \/ Contains(KW_stop, t)
    \/ Contains(KW_start_over, t)
    \/ t = KW_auto_reset_scroll

NormalChat(p) == ~SelectorsDiffer(p) /\ ~HasResetKeyword(Normalized(p))

\* the model call of request p was made and failed: it raised, or the
\* response had no candidate, or it had no text
CallFailed(p) ==
    /\ obs[p].calls = 1
    /\ \/ frame[p].response.raised
       \/ frame[p].response.candidates = <<>>
       \/ ~frame[p].response.has_text

CallSucceeded(p) == obs[p].calls = 1 /\ ~CallFailed(p)

WelcomeTurn(personality) == Content("model", WelcomeText(personality))

StateChangeReply(language, personality) ==
    [response |-> StateChangeText(language, personality),
     language |-> language, personality |-> personality]

(***************************************************************************)
(* C1                                                                      *)
(***************************************************************************)
\* C1: a normal chat request whose model call fails in any way (raise, no
\* candidate, no text) leaves the transcript as it was and returns the fixed
\* 'Could not contact Gemini model' string.
C1_FailedCallLeavesTranscript ==
    \A p \in Procs :
        (Done(p) /\ NormalChat(p) /\ CallFailed(p)) =>
            /\ Transcript = obs[p].pre_history
            /\ result[p].response = ERR_NO_CONTACT

(***************************************************************************)
(* C2                                                                      *)
(***************************************************************************)
\* C2: with requests one at a time, a normal chat request whose model call
\* succeeds leaves the transcript equal to the previous transcript followed
\* by the user turn holding the trimmed input and then the model turn the
\* API returned.
C2_SuccessAppendsUserThenModel ==
    \A p \in Procs :
        (Done(p) /\ NormalChat(p) /\ CallSucceeded(p)) =>
            Transcript =
                obs[p].pre_history
                \o << Content("user", Strip(RawInput(p))),
                      frame[p].response.candidates[1] >>

C2_Witness ==
    \E p \in Procs :
        /\ Done(p) /\ NormalChat(p) /\ CallSucceeded(p)
        /\ Len(obs[p].pre_history) >= 3
        /\ Strip(RawInput(p)) # RawInput(p)

(***************************************************************************)
(* C3                                                                      *)
(***************************************************************************)
\* C3: a request whose requested language or personality differs from the
\* stored one ends with the stored selectors equal to the requested ones,
\* the transcript being the single welcome turn, the user's message not in
\* the transcript, and the state-change greeting as the response.
C3_SelectorChangeResets ==
    \A p \in Procs :
        (Done(p) /\ SelectorsDiffer(p)) =>
            /\ user_language = ReqLanguage(p)
            /\ user_personality = ReqPersonality(p)
            /\ Transcript = <<WelcomeTurn(ReqPersonality(p))>>
            /\ \A k \in 1..Len(Transcript) :
                    Transcript[k] # Content("user", Strip(RawInput(p)))
            /\ result[p] = StateChangeReply(ReqLanguage(p), ReqPersonality(p))

C3_Witness ==
    \E p \in Procs :
        /\ Done(p) /\ SelectorsDiffer(p)
        /\ Len(obs[p].pre_history) >= 3
        /\ ~HasResetKeyword(Normalized(p))
        /\ "personality" \notin DOMAIN frame[p].data

(***************************************************************************)
(* C4                                                                      *)
(***************************************************************************)
\* C4: the selector change is tested first: a request that changes a
\* selector and carries a reset keyword gets the state-change greeting with
\* language and personality, not the reset confirmation and no silent flag;
\* and a request with unchanged selectors and a reset keyword makes no model
\* call.
C4_FirstMatchWins ==
    \A p \in Procs :
        (Done(p) /\ HasResetKeyword(Normalized(p))) =>
            IF SelectorsDiffer(p)
            THEN /\ DOMAIN result[p] = {"response", "language", "personality"}
                 /\ result[p].response =
                        StateChangeText(ReqLanguage(p), ReqPersonality(p))
                 /\ result[p].response # ResetText(user_personality, user_language)
                 /\ result[p].response # SILENT_RESPONSE
            ELSE /\ obs[p].calls = 0
                 /\ frame[p].contents = <<>>
                 /\ obs[p].branch = "reset"

C4_Witness ==
    \E p \in Procs :
        /\ Done(p) /\ SelectorsDiffer(p)
        /\ Normalized(p) = KW_auto_reset_scroll

(***************************************************************************)
(* C5                                                                      *)
(***************************************************************************)
\* C5: with unchanged selectors and a reset keyword in the lowercased
\* trimmed input, the transcript becomes the single welcome turn, and the
\* response is silent exactly when that input equals "auto_reset_scroll";
\* every other match returns the non-silent reset confirmation.
C5_ResetKeyword ==
    \A p \in Procs :
        (Done(p) /\ ~SelectorsDiffer(p) /\ HasResetKeyword(Normalized(p))) =>
            /\ Transcript = <<WelcomeTurn(user_personality)>>
            /\ ("silent" \in DOMAIN result[p])
                    <=> (Normalized(p) = KW_auto_reset_scroll)
            /\ result[p] =
                    IF Normalized(p) = KW_auto_reset_scroll
                    THEN [response |-> SILENT_RESPONSE, silent |-> TRUE]
                    ELSE [response |-> ResetText(user_personality, user_language),
                          language |-> user_language]

C5_Witness ==
    \E p \in Procs :
        /\ Done(p) /\ ~SelectorsDiffer(p)
        /\ Contains(KW_auto_reset_scroll, Normalized(p))
        /\ Normalized(p) # KW_auto_reset_scroll
        /\ Len(obs[p].pre_history) >= 3

(***************************************************************************)
(* C6                                                                      *)
(***************************************************************************)
\* C6: with no model client, a normal chat request returns the fixed
\* 'Gemini client not initialized' string, makes no model call and leaves
\* the transcript and the stored selectors unchanged; selector-change and
\* reset-keyword requests still reset the transcript.
C6_UnconfiguredClient ==
    \A p \in Procs :
        (Done(p) /\ client = "none") =>
            IF NormalChat(p)
            THEN /\ result[p].response = ERR_NOT_INITIALIZED
                 /\ obs[p].calls = 0
                 /\ frame[p].contents = <<>>
                 /\ Transcript = obs[p].pre_history
                 /\ user_language = obs[p].pre_language
                 /\ user_personality = obs[p].pre_personality
            ELSE /\ Transcript = <<WelcomeTurn(ReqPersonality(p))>>
                 /\ obs[p].calls = 0

C6_Witness ==
    \E p \in Procs :
        /\ Done(p) /\ client = "none" /\ NormalChat(p)
        /\ obs[p].pre_language = "French"

(***************************************************************************)
(* C7                                                                      *)
(***************************************************************************)
\* C7: the state-change branch is taken exactly when a selector supplied in
\* the request differs from the stored one; a request that omits both
\* selectors, or repeats the stored ones, is dispatched on its input text.
C7_StateChangeIffSelectorsDiffer ==
    \A p \in Procs :
        Done(p) =>
            /\ (obs[p].branch = "state_change") <=> SelectorsDiffer(p)
            /\ (DOMAIN frame[p].data \cap {"language", "personality"} = {})
                    => obs[p].branch \in {"reset", "chat"}

\* the stored selectors came from an earlier selector change, and the same
\* selectors are sent again
C7_Witness ==
    \E p \in Procs :
        /\ Done(p)
        /\ {"language", "personality"} \subseteq DOMAIN frame[p].data
        /\ frame[p].data.language = "French"
        /\ frame[p].data.personality = "Pirate"
        /\ obs[p].pre_language = "French"
        /\ obs[p].pre_personality = "Pirate"
        /\ obs[p].branch = "chat"

(***************************************************************************)
(* C8                                                                      *)
(***************************************************************************)
InstructionTurns ==
    {Content("user", build_system_prompt(l, q)) :
        l \in Languages, q \in Personalities}

WelcomeTurns == {WelcomeTurn(q) : q \in Personalities}

UserInputTurns == {Content("user", Strip(i)) : i \in SeqInputs \cup {<<>>}}

ApiTurns ==
    {o.candidates[1] : o \in {x \in ApiOutcomes : x.candidates # <<>>}}

\* C8: no stored turn is the instruction prompt: every turn of every list is
\* a welcome turn, a user turn holding user input, or a model turn returned
\* by the API.
C8_NoInstructionTurnStored ==
    \A i \in ListIds :
        \A k \in 1..Len(heap[i]) :
            /\ heap[i][k] \notin InstructionTurns
            /\ heap[i][k] \in WelcomeTurns \cup UserInputTurns \cup ApiTurns

C8_Witness ==
    \E p \in Procs :
        /\ Done(p) /\ CallSucceeded(p)
        /\ frame[p].contents[1] \in InstructionTurns
        /\ Len(Transcript) >= 5

(***************************************************************************)
(* C9                                                                      *)
(***************************************************************************)
\* C9: the outbound message list of a model call is the instruction turn
\* built from the stored selectors, then every turn of the transcript as it
\* was before the exchange, then one user turn holding the new input.
C9_OutboundContents ==
    \A p \in Procs :
        obs[p].calls = 1 =>
            /\ frame[p].contents =
                    << Content("user",
                               build_system_prompt(user_language, user_personality)) >>
                    \o obs[p].pre_history
                    \o << Content("user", Strip(RawInput(p))) >>
            /\ Len(frame[p].contents) = Len(obs[p].pre_history) + 2
            /\ user_language = obs[p].pre_language
            /\ user_personality = obs[p].pre_personality

C9_Witness ==
    \E p \in Procs :
        /\ obs[p].calls = 1
        /\ Len(obs[p].pre_history) >= 3
        /\ user_language = "French"
        /\ user_personality = "Pirate"

(***************************************************************************)
(* C10                                                                     *)
(***************************************************************************)
\* C10: with two requests served concurrently, the user turn and the model
\* turn one request appends stay in that order in the list it was given,
\* and whatever lies between them was appended by the other request; such a
\* state, with the other request's turn in between, is reachable.
C10_PairSplitOnlyByOtherRequest ==
    \A p \in Procs :
        (pc[p] = "L172" /\ obs[p].midx > 0) =>
            LET h == heap[frame[p].history]
                o == owner[frame[p].history]
                u == obs[p].uidx
                m == obs[p].midx
            IN  /\ 0 < u /\ u < m /\ m <= Len(h)
                /\ h[u] = Content("user", frame[p].user_input)
                /\ h[m] = frame[p].response.candidates[1]
                /\ o[u] = p /\ o[m] = p
                /\ \A k \in (u + 1)..(m - 1) : o[k] \in Procs \ {p}

\* a user turn of request A between the two turns of request B, in the
\* shared live transcript
C10_Witness ==
    \E p \in Procs :
        /\ pc[p] = "L172" /\ obs[p].midx > obs[p].uidx + 1
        /\ frame[p].history = conversation_history
        /\ \E k \in (obs[p].uidx + 1)..(obs[p].midx - 1) :
                /\ owner[conversation_history][k] \in Procs \ {p}
                /\ Transcript[k].role = "user"

(***************************************************************************)
(* C11                                                                     *)
(***************************************************************************)
\* The arguments get_gemini_response is called with, drawn freely: known
\* and unknown personalities, with different inputs on the two threads.
PromptLanguages == {"English", "French"}
PromptPersonalities ==
    {"Study Buddy", "Wellness Coach", "Career Advisor", "Pirate", "study buddy", ""}
PromptInputs == {<<"h","i">>, <<>>}

GeminiCalls ==
    {[EmptyFrame EXCEPT !.language = l, !.personality = q,
                        !.user_input = i, !.history = 1] :
        l \in PromptLanguages, q \in PromptPersonalities, i \in PromptInputs}

\* every thread is at the entry of get_gemini_response (line 86)
InitPrompt ==
    /\ user_language = "English"
    /\ user_personality = "Study Buddy"
    /\ client \in {"configured", "none"}
    /\ conversation_history = 1
    /\ heap = [i \in ListIds |->
                IF i = 1 THEN <<Content("model", WelcomeText("Study Buddy"))>>
                ELSE <<>>]
    /\ owner = [i \in ListIds |-> IF i = 1 THEN <<0>> ELSE <<>>]
    /\ pc = [p \in Procs |-> "L88"]
    /\ frame \in [Procs -> GeminiCalls]
    /\ result = [p \in Procs |-> <<>>]
    /\ obs = [p \in Procs |-> EmptyObs]
    /\ served = 0

\* lines 88-101: the prompt is built
NextPrompt == \E p \in Procs : PrepareContents(p)

SpecPrompt == InitPrompt /\ [][NextPrompt]_vars

KnownPersonalities == {"Study Buddy", "Wellness Coach", "Career Advisor"}

\* C11: the prompt built for a call depends on (language, personality)
\* only, and for a personality that is not 'Study Buddy', 'Wellness Coach'
\* or 'Career Advisor' it is the prompt of 'Study Buddy' in that language.
C11_UnknownPersonalityFallsBack ==
    \A p \in Procs :
        frame[p].contents # <<>> =>
            /\ frame[p].personality \notin KnownPersonalities =>
                /\ frame[p].contents[1].text =
                        build_system_prompt(frame[p].language, "Study Buddy")
                /\ frame[p].contents[1].text[2] =
                        PERSONALITY_INSTRUCTIONS["Study Buddy"]
            /\ \A q \in Procs :
                    ( /\ frame[q].contents # <<>>
                      /\ frame[q].language = frame[p].language
                      /\ frame[q].personality = frame[p].personality )
                    => frame[q].contents[1] = frame[p].contents[1]

\* an unknown personality on one thread and 'Study Buddy' on the other,
\* with different inputs, gave the same prompt
C11_Witness ==
    \E p, q \in Procs :
        /\ frame[p].contents # <<>> /\ frame[q].contents # <<>>
        /\ frame[p].personality = ""
        /\ frame[q].personality = "Study Buddy"
        /\ frame[p].language = "French" /\ frame[q].language = "French"
        /\ frame[p].user_input # frame[q].user_input
        /\ frame[p].contents[1] = frame[q].contents[1]

(***************************************************************************)
(* C12                                                                     *)
(***************************************************************************)
\* no request is being handled
Quiescent == \A p \in Procs : pc[p] \in {"idle", "done"}

\* C12: with requests one at a time, between requests the transcript is the
\* model welcome turn followed by complete (user turn, model turn) pairs:
\* its length is odd and the roles alternate, so no user turn is stored
\* without the model reply of its exchange.
C12_CompletePairsOnly ==
    Quiescent =>
        /\ Len(Transcript) % 2 = 1
        /\ \A k \in 1..Len(Transcript) :
                Transcript[k].role = (IF k % 2 = 1 THEN "model" ELSE "user")

(***************************************************************************)
(* C13                                                                     *)
(***************************************************************************)
\* C13: with requests one at a time, between requests the transcript is
\* non-empty and its first turn is the model welcome turn naming the stored
\* personality; and a request that changed the stored selector pair left
\* the transcript as that single welcome turn.
C13_WelcomeNamesStoredPersonality ==
    Quiescent =>
        /\ Transcript # <<>>
        /\ Transcript[1] = Content("model", WelcomeText(user_personality))
        /\ \A p \in Procs :
                ( /\ pc[p] = "done"
                  /\ \/ user_language # obs[p].pre_language
                     \/ user_personality # obs[p].pre_personality )
                => Transcript = <<Content("model", WelcomeText(user_personality))>>

C13_Witness ==
    \E p \in Procs :
        /\ pc[p] = "done"
        /\ obs[p].pre_personality = "Study Buddy"
        /\ user_personality = "Pirate"
        /\ obs[p].pre_language = user_language
        /\ Len(obs[p].pre_history) >= 3

(***************************************************************************)
(* C14                                                                     *)
(***************************************************************************)
\* C14: a request calls the model API once if it is a normal chat request
\* and the client is configured, and not at all otherwise (selector change,
\* reset keyword, no client, GET / and GET /status); a call that failed is
\* not made again.
C14_OneCallPerNormalChat ==
    \A p \in Procs :
        /\ obs[p].calls <= 1
        /\ pc[p] = "done" =>
                obs[p].calls =
                    IF Done(p) /\ NormalChat(p) /\ client = "configured"
                    THEN 1 ELSE 0

C14_Witness ==
    \E p \in Procs :
        /\ Done(p) /\ NormalChat(p)
        /\ frame[p].response.raised
        /\ obs[p].calls = 1
        /\ result[p].response = ERR_NO_CONTACT

(***************************************************************************)
(* C15                                                                     *)
(***************************************************************************)
\* C15: only a request that changes a selector changes the stored language
\* and personality: reset-keyword requests, normal chat requests and the
\* two GET endpoints leave both as they were, and the GET endpoints leave
\* the transcript as it was too.
C15_SelectorsChangedOnlyByStateChange ==
    \A p \in Procs :
        pc[p] = "done" =>
            /\ ~(Done(p) /\ SelectorsDiffer(p)) =>
                    /\ user_language = obs[p].pre_language
                    /\ user_personality = obs[p].pre_personality
            /\ ~Done(p) =>
                    /\ Transcript = obs[p].pre_history
                    /\ obs[p].branch \in {"home", "status"}

C15_Witness ==
    \E p \in Procs :
        /\ pc[p] = "done"
        /\ obs[p].branch = "status"
        /\ result[p].language = "French"
        /\ result[p].personality = "Pirate"
        /\ Len(Transcript) >= 3

(***************************************************************************)
(* C16                                                                     *)
(***************************************************************************)
\* the live transcript holds no turn this thread appended
NoTurnInTranscript(p) ==
    \A k \in 1..Len(owner[conversation_history]) :
        owner[conversation_history][k] # p

\* C16 as stated: when a reset completes while another request's model call
\* is in flight, that request's turns go to the list it captured and not to
\* the new transcript, so the live transcript holds no turn of it.
C16_ResetInFlightLosesExchange ==
    \A p \in Procs :
        obs[p].reset_in_flight =>
            /\ frame[p].history # NoList =>
                    frame[p].history # conversation_history
            /\ NoTurnInTranscript(p)

\* C16 as amended: when conversation_history is rebound (line 77 of a
\* reset) after a request was given the list (line 171), the request's
\* turns go to the list it was given and not to the new transcript: the
\* live transcript holds no turn of it, and the exchange is lost even
\* though the request returns the model's reply.
C16_RebindAfterCaptureLosesExchange ==
    \A p \in Procs :
        obs[p].rebound =>
            /\ frame[p].history # NoList =>
                    /\ frame[p].history # conversation_history
                    /\ obs[p].uidx > 0 =>
                            /\ owner[frame[p].history][obs[p].uidx] = p
                            /\ heap[frame[p].history][obs[p].uidx]
                                    = Content("user", frame[p].user_input)
                    /\ obs[p].midx > 0 =>
                            /\ owner[frame[p].history][obs[p].midx] = p
                            /\ heap[frame[p].history][obs[p].midx]
                                    = frame[p].response.candidates[1]
            /\ NoTurnInTranscript(p)
            /\ (pc[p] = "done" /\ CallSucceeded(p)) =>
                    /\ result[p].response = Strip(frame[p].response.text)
                    /\ result[p].response \notin {ERR_NO_CONTACT, ERR_NOT_INITIALIZED}

\* a reset completed while the call was in flight, the request returned the
\* model's reply, and the live transcript is the welcome turn alone
C16_Witness ==
    \E p \in Procs :
        /\ pc[p] = "done" /\ CallSucceeded(p)
        /\ obs[p].rebound /\ obs[p].reset_in_flight
        /\ result[p].response = <<"o","k">>
        /\ Len(Transcript) = 1

====
